---- MODULE Spec2Model ----
(***************************************************************************)
(* The to-do list screen of src/myproject/App.js (the second component of  *)
(* the file, lines 25-281) as a state machine.                             *)
(*                                                                         *)
(* State: the four useState cells (task, tasks, editingId, taskAnimations),*)
(* the running Animated.timing transitions with the closure each           *)
(* completion callback captured, the AsyncStorage slot 'tasks', the        *)
(* getItem issued by the load effect, the setItem calls issued by the save *)
(* effect and not yet executed (with the number issued so far), the        *)
(* console.error channel and the clock Date.now() reads.                   *)
(*                                                                         *)
(* One action per event the component reacts to. Every action that calls   *)
(* setTasks includes the re-render and the run of the [tasks] effect that  *)
(* follows it (the setItem it issues).                                     *)
(***************************************************************************)
EXTENDS Integers, Sequences, FiniteSets, TLC

VARIABLES mounted, task, tasks, editingId, taskAnimations, animations,
          now, slot, load, writes, issued, errors

vars == <<mounted, task, tasks, editingId, taskAnimations, animations,
          now, slot, load, writes, issued, errors>>

----------------------------------------------------------------------------
(* Bounds of the model *)

\* last clock reading Date.now() can return (the clock starts at 1)
MaxClock == 2
\* addTask is not pressed once the list holds this many tasks
MaxTasks == 2
\* transitions running at the same time
MaxAnims == 2
\* setItem calls issued and not yet executed by the storage
MaxWrites == 2
\* setItem calls issued in one session
MaxPersists == 4

----------------------------------------------------------------------------
(* Values *)

\* a text is a sequence of characters; " " is the whitespace character.
\* What the user types into the input ...
Texts == {<<>>, <<" ">>, <<"a">>}
\* ... and into the field of the item being edited
EditTexts == {<<>>, <<"a">>}

\* Date.now().toString()
IdOf(t) == ToString(t)

\* the ids a task can have: "0" is the task an earlier session stored
TaskIds == {IdOf(t) : t \in 0..MaxClock}

\* useState(null) / setEditingId(null)
Null == "null"

\* useState({})
EmptyMap == [x \in {} |-> 0]

\* getItem's null, and a stored value v
Absent == <<>>
Some(v) == <<v>>

Ids(l) == {l[i].id : i \in DOMAIN l}

----------------------------------------------------------------------------
(* String.prototype.trim, used as a truth value in addTask *)

RECURSIVE TrimStart(_)
TrimStart(s) ==
  IF s = <<>> THEN <<>>
  ELSE IF Head(s) = " " THEN TrimStart(Tail(s)) ELSE s

RECURSIVE TrimEnd(_)
TrimEnd(s) ==
  IF s = <<>> THEN <<>>
  ELSE IF s[Len(s)] = " " THEN TrimEnd(SubSeq(s, 1, Len(s) - 1)) ELSE s

\* a variant that tests the input as typed: if (task)
TrimNothing(s) == s

Trim(s) == TrimEnd(TrimStart(s))

\* a string is truthy when it is not empty
Truthy(s) == s # <<>>

----------------------------------------------------------------------------
(* JSON.stringify / JSON.parse of the task array, as a token stream *)

BoolToken(b) == IF b THEN "true" ELSE "false"

\* a variant that writes every task as not completed
StringifyTaskNotDone(t) ==
  <<"{", "id", t.id, "text", "\"">> \o t.text \o
  <<"\"", "completed", BoolToken(FALSE), "}">>

StringifyTask(t) ==
  <<"{", "id", t.id, "text", "\"">> \o t.text \o
  <<"\"", "completed", BoolToken(t.completed), "}">>

RECURSIVE StringifyItems(_)
StringifyItems(l) ==
  IF l = <<>> THEN <<>> ELSE StringifyTask(Head(l)) \o StringifyItems(Tail(l))

JSONstringify(l) == <<"[">> \o StringifyItems(l) \o <<"]">>

\* the characters of a string value, up to its closing quote
RECURSIVE ParseChars(_)
ParseChars(s) ==
  IF s = <<>> THEN [ok |-> FALSE, value |-> <<>>, rest |-> <<>>]
  ELSE IF Head(s) = "\"" THEN [ok |-> TRUE, value |-> <<>>, rest |-> Tail(s)]
  ELSE LET r == ParseChars(Tail(s))
       IN  [ok |-> r.ok, value |-> <<Head(s)>> \o r.value, rest |-> r.rest]

\* one task object at the head of s
ParseTask(s) ==
  IF Len(s) < 5 \/ SubSeq(s, 1, 2) # <<"{", "id">>
     \/ SubSeq(s, 4, 5) # <<"text", "\"">>
  THEN [ok |-> FALSE, value |-> <<>>, rest |-> <<>>]
  ELSE LET c == ParseChars(SubSeq(s, 6, Len(s)))
       IN  IF ~c.ok \/ Len(c.rest) < 3 \/ c.rest[1] # "completed"
              \/ c.rest[2] \notin {"true", "false"} \/ c.rest[3] # "}"
           THEN [ok |-> FALSE, value |-> <<>>, rest |-> <<>>]
           ELSE [ok |-> TRUE,
                 value |-> [id |-> s[3], text |-> c.value,
                            completed |-> (c.rest[2] = "true")],
                 rest |-> SubSeq(c.rest, 4, Len(c.rest))]

\* the task objects of s, up to the closing bracket that ends the text
RECURSIVE ParseItems(_)
ParseItems(s) ==
  IF s = <<"]">> THEN [ok |-> TRUE, value |-> <<>>]
  ELSE LET t == ParseTask(s)
       IN  IF ~t.ok THEN [ok |-> FALSE, value |-> <<>>]
           ELSE LET r == ParseItems(t.rest)
                IN  [ok |-> r.ok,
                     value |-> IF r.ok THEN <<t.value>> \o r.value ELSE <<>>]

\* ok = FALSE stands for the SyntaxError JSON.parse throws
JSONparse(s) ==
  IF s = <<>> \/ Head(s) # "["
  THEN [ok |-> FALSE, value |-> <<>>]
  ELSE ParseItems(Tail(s))

----------------------------------------------------------------------------
(* What AsyncStorage can hold under 'tasks' when the app starts *)

StoredList == <<[id |-> IdOf(0), text |-> <<"a">>, completed |-> FALSE]>>

\* a stored value JSON.parse rejects
Corrupt == <<"[", "{", "id">>

InitialSlots == {Absent, Some(JSONstringify(StoredList))}

\* ... and when the stored value can be damaged too
FaultySlots == InitialSlots \cup {Some(Corrupt)}

----------------------------------------------------------------------------
\* the useState initial values, nothing rendered yet
InitState ==
  /\ mounted = FALSE
  /\ task = <<>>
  /\ tasks = <<>>
  /\ editingId = Null
  /\ taskAnimations = EmptyMap
  /\ animations = <<>>
  /\ now = 1
  /\ load = [state |-> "idle", value |-> Absent]
  /\ writes = <<>>
  /\ issued = 0
  /\ errors = {}

Init == InitState /\ slot \in InitialSlots

----------------------------------------------------------------------------
(* The pure parts of the handlers *)

\* { id: Date.now().toString(), text: task, completed: false }
NewTask(text, t) == [id |-> IdOf(t), text |-> text, completed |-> FALSE]

\* a variant that puts the new task first: [newTask, ...prevTasks]
AppendTaskFirst(prevTasks, newTask) == <<newTask>> \o prevTasks

\* [...prevTasks, newTask]
AppendTask(prevTasks, newTask) == Append(prevTasks, newTask)

\* prevTasks.filter((item) => item.id !== taskId)
RemoveTask(prevTasks, taskId) ==
  SelectSeq(prevTasks, LAMBDA item : item.id # taskId)

\* a variant that marks the task done instead of flipping it
ToggleTaskSetsDone(prevTasks, taskId) ==
  [i \in DOMAIN prevTasks |->
     IF prevTasks[i].id = taskId
     THEN [prevTasks[i] EXCEPT !.completed = TRUE]
     ELSE prevTasks[i]]

\* prevTasks.map(task => task.id === taskId ? {...task, completed: !task.completed} : task)
ToggleTask(prevTasks, taskId) ==
  [i \in DOMAIN prevTasks |->
     IF prevTasks[i].id = taskId
     THEN [prevTasks[i] EXCEPT !.completed = ~prevTasks[i].completed]
     ELSE prevTasks[i]]

\* a variant that validates the edit as addTask validates its input
SetTaskTextUnlessEmpty(prevTasks, taskId, newText) ==
  [i \in DOMAIN prevTasks |->
     IF prevTasks[i].id = taskId /\ newText # <<>>
     THEN [prevTasks[i] EXCEPT !.text = newText]
     ELSE prevTasks[i]]

\* prevTasks.map(task => task.id === taskId ? {...task, text: newText} : task)
SetTaskText(prevTasks, taskId, newText) ==
  [i \in DOMAIN prevTasks |->
     IF prevTasks[i].id = taskId
     THEN [prevTasks[i] EXCEPT !.text = newText]
     ELSE prevTasks[i]]

\* a variant that tests the index itself: if (taskIndex), true of -1 and
\* false of 0
FoundIndexTruthy(l, taskId) == ~(l # <<>> /\ l[1].id = taskId)

\* tasks.findIndex(task => task.id === taskId) >= 0
Found(l, taskId) == \E i \in DOMAIN l : l[i].id = taskId

\* const m = { ...map }; m[k] = v
MapSet(map, k, v) ==
  [x \in DOMAIN map \cup {k} |-> IF x = k THEN v ELSE map[x]]

\* const m = { ...map }; delete m[k]
MapDelete(map, k) == [x \in DOMAIN map \ {k} |-> map[x]]

\* AsyncStorage.setItem('tasks', JSON.stringify(tasks)), handed to the storage
Persist(pending, l) == Append(pending, JSONstringify(l))

\* a variant whose effect has no dependency on tasks: it runs after the
\* first render only
SaveOnMountOnly(l) ==
  IF mounted
  THEN UNCHANGED <<writes, issued>>
  ELSE /\ writes' = Persist(writes, l)
       /\ issued' = issued + 1

\* A render with a new tasks array l: the [tasks] effect runs
\* saveTasksToStorage, which issues its setItem and is awaited by no one.
Save(l) ==
  /\ issued < MaxPersists
  /\ Len(writes) < MaxWrites
  /\ writes' = Persist(writes, l)
  /\ issued' = issued + 1

\* the sequence s without its i-th element
Without(s, i) == SubSeq(s, 1, i - 1) \o SubSeq(s, i + 1, Len(s))

\* a running Animated.timing: the id its value belongs to, where it runs to,
\* whether start() was given a callback, and the map that callback closes over
Timing(taskId, toValue, callback, closure) ==
  [taskId |-> taskId, toValue |-> toValue, callback |-> callback,
   newTaskAnimations |-> closure]

----------------------------------------------------------------------------
(* Startup: the first render, then both effects in source order *)

Mount ==
  /\ ~mounted
  /\ mounted' = TRUE
  /\ load' = [state |-> "pending", value |-> Absent]
  /\ Save(tasks)
  /\ UNCHANGED <<task, tasks, editingId, taskAnimations, animations, now,
                 slot, errors>>

\* the storage executes AsyncStorage.getItem('tasks')
GetItemResolves ==
  /\ load.state = "pending"
  /\ load' = [state |-> "resolved", value |-> slot]
  /\ UNCHANGED <<mounted, task, tasks, editingId, taskAnimations, animations,
                 now, slot, writes, issued, errors>>

\* ... or fails to
GetItemRejects ==
  /\ load.state = "pending"
  /\ load' = [state |-> "rejected", value |-> Absent]
  /\ UNCHANGED <<mounted, task, tasks, editingId, taskAnimations, animations,
                 now, slot, writes, issued, errors>>

\* loadTasksFromStorage after its await: savedTasks is load.value
LoadTasksFromStorage ==
  /\ load.state \in {"resolved", "rejected"}
  /\ load' = [state |-> "done", value |-> Absent]
  /\ IF load.state = "rejected"
     THEN /\ errors' = errors \cup {"load"}
          /\ UNCHANGED <<tasks, writes, issued>>
     ELSE IF load.value # Absent /\ Truthy(load.value[1])
     THEN LET parsed == JSONparse(load.value[1])
          IN  IF parsed.ok
              THEN /\ tasks' = parsed.value
                   /\ Save(tasks')
                   /\ UNCHANGED errors
              ELSE /\ errors' = errors \cup {"load"}
                   /\ UNCHANGED <<tasks, writes, issued>>
     ELSE UNCHANGED <<tasks, writes, issued, errors>>
  /\ UNCHANGED <<mounted, task, editingId, taskAnimations, animations, now,
                 slot>>

\* the storage executes one of the setItem calls it was handed
SetItemResolves(i) ==
  /\ slot' = Some(writes[i])
  /\ writes' = Without(writes, i)
  /\ UNCHANGED <<mounted, task, tasks, editingId, taskAnimations, animations,
                 now, load, issued, errors>>

\* a variant whose catch hands the same value to the storage again
SetItemRetries(i) ==
  /\ writes' = Append(Without(writes, i), writes[i])
  /\ errors' = errors \cup {"save"}
  /\ UNCHANGED <<mounted, task, tasks, editingId, taskAnimations, animations,
                 now, slot, load, issued>>

\* ... or fails to, and saveTasksToStorage's catch logs it
SetItemRejects(i) ==
  /\ writes' = Without(writes, i)
  /\ errors' = errors \cup {"save"}
  /\ UNCHANGED <<mounted, task, tasks, editingId, taskAnimations, animations,
                 now, slot, load, issued>>

----------------------------------------------------------------------------
(* The handlers of the rendered screen. Each runs in the closure of the    *)
(* latest render, so it reads the current task, tasks and taskAnimations.  *)

\* onChangeText of the input: setTask(text)
ChangeText(text) ==
  /\ mounted
  /\ task' = text
  /\ UNCHANGED <<mounted, tasks, editingId, taskAnimations, animations, now,
                 slot, load, writes, issued, errors>>

\* the '+' button
addTask ==
  /\ mounted
  /\ IF Truthy(Trim(task))
     THEN LET newTask == NewTask(task, now)
              newTaskAnimations == MapSet(taskAnimations, newTask.id, 0)
          IN  /\ Len(tasks) < MaxTasks
              /\ Len(animations) < MaxAnims
              /\ tasks' = AppendTask(tasks, newTask)
              /\ taskAnimations' = newTaskAnimations
              /\ animations' =
                   Append(animations, Timing(newTask.id, 1, FALSE, EmptyMap))
              /\ task' = <<>>
              /\ Save(tasks')
     ELSE UNCHANGED <<task, tasks, taskAnimations, animations, writes, issued>>
  /\ UNCHANGED <<mounted, editingId, now, slot, load, errors>>

\* the 'X' button of an item: starts the fade-out, removes nothing yet
deleteTask(taskId) ==
  /\ mounted
  /\ IF Found(tasks, taskId)
     THEN LET newTaskAnimations == MapSet(taskAnimations, taskId, 1)
          IN  /\ Len(animations) < MaxAnims
              /\ taskAnimations' = newTaskAnimations
              /\ animations' =
                   Append(animations,
                          Timing(taskId, 0, TRUE, newTaskAnimations))
     ELSE UNCHANGED <<taskAnimations, animations>>
  /\ UNCHANGED <<mounted, task, tasks, editingId, now, slot, load, writes,
                 issued, errors>>

\* The transition that was started first reaches its end value (all run for
\* the same 500 ms); a fade-out then runs the callback deleteTask gave it.
AnimationEnd ==
  /\ animations # <<>>
  /\ LET a == Head(animations)
     IN  /\ animations' = Tail(animations)
         /\ IF a.callback
            THEN /\ tasks' = RemoveTask(tasks, a.taskId)
                 /\ taskAnimations' = MapDelete(a.newTaskAnimations, a.taskId)
                 /\ Save(tasks')
            ELSE UNCHANGED <<tasks, taskAnimations, writes, issued>>
  /\ UNCHANGED <<mounted, task, editingId, now, slot, load, errors>>

\* a tap on an item's text
toggleComplete(taskId) ==
  /\ mounted
  /\ tasks' = ToggleTask(tasks, taskId)
  /\ Save(tasks')
  /\ UNCHANGED <<mounted, task, editingId, taskAnimations, animations, now,
                 slot, load, errors>>

\* a variant that ends the edit with the change
updateTaskEndsEdit(taskId, newText) ==
  /\ mounted
  /\ tasks' = SetTaskText(tasks, taskId, newText)
  /\ Save(tasks')
  /\ editingId' = Null
  /\ UNCHANGED <<mounted, task, taskAnimations, animations, now, slot, load,
                 errors>>

\* onChangeText of the item being edited
updateTask(taskId, newText) ==
  /\ mounted
  /\ tasks' = SetTaskText(tasks, taskId, newText)
  /\ Save(tasks')
  /\ UNCHANGED <<mounted, task, editingId, taskAnimations, animations, now,
                 slot, load, errors>>

\* the 'Edit' button of a rendered item: setEditingId(item.id)
PressEdit(taskId) ==
  /\ mounted
  /\ Found(tasks, taskId)
  /\ editingId' = taskId
  /\ UNCHANGED <<mounted, task, tasks, taskAnimations, animations, now, slot,
                 load, writes, issued, errors>>

\* onBlur of the item being edited
handleBlur ==
  /\ mounted
  /\ editingId # Null
  /\ editingId' = Null
  /\ UNCHANGED <<mounted, task, tasks, taskAnimations, animations, now, slot,
                 load, writes, issued, errors>>

\* a millisecond passes
Tick ==
  /\ now < MaxClock
  /\ now' = now + 1
  /\ UNCHANGED <<mounted, task, tasks, editingId, taskAnimations, animations,
                 slot, load, writes, issued, errors>>

----------------------------------------------------------------------------
(* The program with a storage that executes every call it is handed *)

Next ==
  \/ Mount
  \/ GetItemResolves
  \/ LoadTasksFromStorage
  \/ \E i \in DOMAIN writes : SetItemResolves(i)
  \/ \E text \in Texts : ChangeText(text)
  \/ addTask
  \/ \E taskId \in TaskIds : deleteTask(taskId)
  \/ AnimationEnd
  \/ \E taskId \in TaskIds : toggleComplete(taskId)
  \/ \E taskId \in TaskIds, newText \in EditTexts : updateTask(taskId, newText)
  \/ \E taskId \in TaskIds : PressEdit(taskId)
  \/ handleBlur
  \/ Tick

Spec == Init /\ [][Next]_vars

(* The program with a storage that can also fail a call, or hold a damaged *)
(* value                                                                   *)

InitFaults == InitState /\ slot \in FaultySlots

NextFaults ==
  \/ Next
  \/ GetItemRejects
  \/ \E i \in DOMAIN writes : SetItemRejects(i)

SpecFaults == InitFaults /\ [][NextFaults]_vars

----------------------------------------------------------------------------
(* Vocabulary of the properties *)

\* the input is empty or holds whitespace only
IsBlank(s) == \A i \in DOMAIN s : s[i] = " "

\* a fade-out of the task with this id is running
FadingOut(id) ==
  \E i \in DOMAIN animations :
     animations[i].callback /\ animations[i].taskId = id

\* this step is the end of a fade-out of the task with this id
RemovalStep(id) ==
  /\ AnimationEnd
  /\ Head(animations).callback
  /\ Head(animations).taskId = id

\* this step issues exactly one setItem, holding the list as it is after it
IssuesSnapshot ==
  /\ issued' = issued + 1
  /\ writes' = Append(writes, JSONstringify(tasks'))

\* the last setItem issued holds the list as it is now
LastWriteIsCurrent ==
  writes # <<>> /\ writes[Len(writes)] = JSONstringify(tasks)

----------------------------------------------------------------------------
(* C1: in every reachable state no two tasks of the list share an id, also *)
(* when addTask runs twice on the same clock reading with the same text.   *)
C1_UniqueIds ==
  \A i, j \in DOMAIN tasks : i # j => tasks[i].id # tasks[j].id

(* C2: addTask with a non-blank input makes the list one longer, puts the  *)
(* task {text: the input, completed: false} last, and leaves the tasks     *)
(* that were there, and their order, as they were.                         *)
C2_AddAppends ==
  [][(addTask /\ ~IsBlank(task)) =>
       /\ Len(tasks') = Len(tasks) + 1
       /\ tasks'[Len(tasks')].text = task
       /\ tasks'[Len(tasks')].completed = FALSE
       /\ SubSeq(tasks', 1, Len(tasks)) = tasks]_vars

\* a second task was just added behind the stored one
C2_Witness ==
  /\ Len(tasks) = 2
  /\ tasks[1] = StoredList[1]
  /\ tasks[2].text = <<"a">> /\ ~tasks[2].completed
  /\ task = <<>>
  /\ LastWriteIsCurrent
  /\ animations # <<>>
  /\ animations[Len(animations)] = Timing(tasks[2].id, 1, FALSE, EmptyMap)

(* C3: when the fade-out of a task that is in the list ends, the list      *)
(* after that step is the list before it with exactly one task, the one of *)
(* that id, taken out: one shorter, nothing else removed, order kept.      *)
C3_RemovesExactlyThatTask ==
  [][\A id \in TaskIds :
       (RemovalStep(id) /\ Found(tasks, id)) =>
         \E k \in DOMAIN tasks :
            /\ tasks[k].id = id
            /\ tasks' = Without(tasks, k)
            /\ Len(tasks') = Len(tasks) - 1]_vars

(* C4: a task whose fade-out is running stays in the list until a fade-out *)
(* of it ends: it leaves the list only in the step that ends its fade-out, *)
(* and the start of the fade-out changes neither the list nor the setItem  *)
(* calls issued.                                                           *)
C4_RemovalGatedOnFadeOut ==
  [][\A id \in TaskIds :
       /\ (FadingOut(id) /\ Found(tasks, id) /\ ~Found(tasks', id))
            => RemovalStep(id)
       /\ deleteTask(id) => UNCHANGED <<tasks, writes, issued>>]_vars

(* C5: once the startup read and every setItem issued have completed, the  *)
(* stored value is the serialized in-memory list, in whatever order the    *)
(* setItem calls completed.                                                *)
C5_StorageConverges ==
  (mounted /\ load.state = "done" /\ writes = <<>>)
    => slot = Some(JSONstringify(tasks))

(* C6: the completion of the startup read replaces only the initial empty  *)
(* list: no user operation has changed the list before it.                 *)
C6_LoadReplacesOnlyInitialList ==
  [][(LoadTasksFromStorage /\ tasks' # tasks) => tasks = <<>>]_vars

(* C7: every step that changes the list issues one setItem holding the new *)
(* list, and so does every add, removal, toggle and text edit; the start   *)
(* of a fade-out, the end of a fade-in, the Edit button and blur issue     *)
(* none.                                                                   *)
C7_PersistOnListChangeOnly ==
  [][/\ (tasks' # tasks) => IssuesSnapshot
     /\ ( \/ (addTask /\ ~IsBlank(task))
          \/ (AnimationEnd /\ Head(animations).callback)
          \/ \E id \in TaskIds : toggleComplete(id)
          \/ \E id \in TaskIds, t \in EditTexts : updateTask(id, t) )
          => IssuesSnapshot
     /\ ( \/ \E id \in TaskIds : deleteTask(id)
          \/ (AnimationEnd /\ ~Head(animations).callback)
          \/ \E id \in TaskIds : PressEdit(id)
          \/ handleBlur
          \/ editingId' # editingId )
          => UNCHANGED <<writes, issued>>]_vars

\* an edited, toggled list was persisted while an item is in edit mode and
\* a fade-out is running
C7_Witness ==
  /\ LastWriteIsCurrent
  /\ issued >= 3
  /\ editingId # Null
  /\ \E i \in DOMAIN tasks : tasks[i].completed /\ FadingOut(tasks[i].id)

(* C8: toggleComplete(id) flips completed on the task of that id and       *)
(* changes nothing else: ids, texts, the other tasks and the order stay;   *)
(* toggling the result again gives the original list; an id that is not in *)
(* the list leaves the list as it was.                                     *)
C8_ToggleFlipsOnlyCompleted ==
  [][\A id \in TaskIds :
       toggleComplete(id) =>
         /\ Len(tasks') = Len(tasks)
         /\ \A i \in DOMAIN tasks :
              /\ tasks'[i].id = tasks[i].id
              /\ tasks'[i].text = tasks[i].text
              /\ tasks'[i].completed =
                   IF tasks[i].id = id THEN ~tasks[i].completed
                                       ELSE tasks[i].completed
         /\ ToggleTask(tasks', id) = tasks
         /\ (~Found(tasks, id) => tasks' = tasks)]_vars

\* a toggled task beside an untouched one, the toggle just persisted
C8_Witness ==
  /\ Len(tasks) = 2
  /\ tasks[1].completed /\ ~tasks[2].completed
  /\ LastWriteIsCurrent

(* C9: updateTask(id, t) sets the text of the task of that id to t, the    *)
(* empty text included, keeps its id and completed flag, every other task  *)
(* and the order, leaves the list as it was when the id is not in it, and  *)
(* leaves editingId as it was.                                             *)
C9_UpdateSetsOnlyText ==
  [][\A id \in TaskIds, t \in EditTexts :
       updateTask(id, t) =>
         /\ Len(tasks') = Len(tasks)
         /\ \A i \in DOMAIN tasks :
              /\ tasks'[i].id = tasks[i].id
              /\ tasks'[i].completed = tasks[i].completed
              /\ tasks'[i].text = IF tasks[i].id = id THEN t
                                                      ELSE tasks[i].text
         /\ (~Found(tasks, id) => tasks' = tasks)
         /\ editingId' = editingId]_vars

\* the completed item being edited was emptied, and the edit persisted
C9_Witness ==
  /\ tasks # <<>>
  /\ editingId = tasks[1].id
  /\ tasks[1].text = <<>> /\ tasks[1].completed
  /\ LastWriteIsCurrent

(* C10: addTask on an empty or whitespace-only input changes nothing: not  *)
(* the list, the animation map, the running transitions, editingId or the  *)
(* input, and it issues no setItem.                                        *)
C10_BlankAddIsNoOp ==
  [][(addTask /\ IsBlank(task)) =>
       UNCHANGED <<tasks, taskAnimations, animations, editingId, task,
                   writes, issued>>]_vars

\* '+' can be pressed on a whitespace-only input with a list, an animation
\* entry and an item in edit mode
C10_Witness ==
  /\ mounted
  /\ task = <<" ">>
  /\ tasks # <<>>
  /\ Len(tasks) < MaxTasks /\ Len(animations) < MaxAnims
  /\ issued < MaxPersists /\ Len(writes) < MaxWrites
  /\ DOMAIN taskAnimations # {}
  /\ editingId # Null

(* C11: deleteTask(id) for an id that no task of the list has changes     *)
(* nothing: no animation entry is made, no transition is started (so no    *)
(* callback can change the list later on its behalf), the list is as it    *)
(* was and no setItem is issued.                                           *)
C11_DeleteAbsentIsNoOp ==
  [][\A id \in TaskIds :
       (deleteTask(id) /\ id \notin Ids(tasks)) =>
          UNCHANGED <<tasks, taskAnimations, animations, writes, issued,
                      editingId, task>>]_vars

\* X can be pressed for the id of a task that was removed, with another
\* task in the list and room for a transition
C11_Witness ==
  /\ mounted
  /\ load.state = "done"
  /\ Ids(tasks) = {IdOf(1)}
  /\ issued >= 3
  /\ IdOf(0) \notin DOMAIN taskAnimations
  /\ Len(animations) < MaxAnims

\* the bounds of the model leave room for one more operation
Room ==
  /\ issued < MaxPersists
  /\ Len(writes) < MaxWrites
  /\ Len(animations) < MaxAnims
  /\ Len(tasks) < MaxTasks

\* every handler of the screen can run
HandlersEnabled ==
  /\ ENABLED (\E text \in Texts : ChangeText(text))
  /\ ENABLED addTask
  /\ \A id \in Ids(tasks) :
       /\ ENABLED deleteTask(id)
       /\ ENABLED toggleComplete(id)
       /\ ENABLED (\E text \in EditTexts : updateTask(id, text))
       /\ ENABLED PressEdit(id)
  /\ editingId # Null => ENABLED handleBlur

\* the getItem call rejected, or resolved to a value JSON.parse throws on
LoadFails ==
  \/ load.state = "rejected"
  \/ /\ load.state = "resolved"
     /\ load.value # Absent
     /\ Truthy(load.value[1])
     /\ ~JSONparse(load.value[1]).ok

(* C12: a failed read, a failed write and an unparseable stored value are *)
(* each absorbed: the step that handles the failure leaves the list in     *)
(* memory as it was and issues no storage call (no retry of the read, no   *)
(* second attempt at the write), the read is never started again, and      *)
(* after any logged failure every handler of the screen can still run.     *)
C12_FailuresAbsorbed ==
  /\ [](mounted /\ errors # {} /\ Room => HandlersEnabled)
  /\ [][/\ (LoadTasksFromStorage /\ LoadFails) =>
             /\ UNCHANGED <<tasks, taskAnimations, editingId, writes, issued,
                            slot>>
             /\ load'.state = "done"
        /\ GetItemRejects => UNCHANGED <<tasks, writes, issued, slot>>
        /\ \A i \in DOMAIN writes :
             SetItemRejects(i) =>
               /\ UNCHANGED <<tasks, taskAnimations, editingId, issued, slot,
                              load>>
               /\ Len(writes') = Len(writes) - 1
        /\ load'.state = "pending" => load.state \in {"idle", "pending"}
       ]_vars

\* both a read failure or parse failure and a write failure were logged in
\* a session that made a task before the load completed, and the task is
\* still there
C12_Witness ==
  /\ errors = {"load", "save"}
  /\ load.state = "done"
  /\ Len(tasks) = 1
  /\ writes = <<>>

(* C13: what a persist hands to the storage for the list L parses back to *)
(* exactly L (ids, texts, completed flags, order), and is the encoding of  *)
(* that list and nothing more; a load that reads a stored value sets the   *)
(* list to what the value encodes and takes neither editingId nor          *)
(* taskAnimations from it.                                                 *)
C13_RoundTrip ==
  [][ /\ issued' # issued =>
          /\ JSONparse(writes'[Len(writes')]) = [ok |-> TRUE, value |-> tasks']
          /\ \A i \in DOMAIN tasks' :
               DOMAIN JSONparse(writes'[Len(writes')]).value[i] =
                 {"id", "text", "completed"}
      /\ (LoadTasksFromStorage /\ load.state = "resolved"
            /\ load.value # Absent) =>
          /\ JSONparse(load.value[1]).ok
          /\ tasks' = JSONparse(load.value[1]).value
          /\ JSONstringify(tasks') = load.value[1]
          /\ UNCHANGED <<editingId, taskAnimations>>
     ]_vars

\* the read returned what this session wrote for a list of one completed
\* task made in this session, while that task is being edited
C13_Witness ==
  /\ load.state = "resolved"
  /\ Len(tasks) = 1
  /\ tasks[1].id = IdOf(1)
  /\ tasks[1].completed
  /\ editingId = IdOf(1)
  /\ load.value = Some(JSONstringify(tasks))

\* the stored value is absent or the encoding of a task list, no more
SlotHoldsListOnly ==
  slot # Absent =>
    /\ JSONparse(slot[1]).ok
    /\ JSONstringify(JSONparse(slot[1]).value) = slot[1]

C15_FadeOutEndTakesOnlyItsEntry ==
  [][\A id \in TaskIds :
       RemovalStep(id) => taskAnimations' = MapDelete(taskAnimations, id)]_vars

\* only the effects of the start have issued a setItem so far: the one of
\* the first render and, once the load is done, the one of the loaded list
OnlyStartupPersists == issued <= 2 /\ (issued = 2 => load.state = "done")

(* C16: a start keeps the stored list: as long as the only setItem calls   *)
(* are those of the start itself, a slot that holds the stored list keeps  *)
(* holding it, however the getItem of the load and the setItem of the      *)
(* first render's empty list are ordered; in particular it is never        *)
(* replaced by the empty list.                                             *)
C16_StartupKeepsStoredList ==
  [][(slot = Some(JSONstringify(StoredList)) /\ OnlyStartupPersists) =>
        slot' = slot]_vars

\* X was pressed again on the task with this id while its fade-out ran:
\* two fade-outs of it are running
FadingOutTwice(id) ==
  \E i, j \in DOMAIN animations :
     /\ i # j
     /\ animations[i].callback /\ animations[i].taskId = id
     /\ animations[j].callback /\ animations[j].taskId = id

(* C17: pressing X again during the fade-out does no harm: the press       *)
(* itself leaves the list alone; the end of the first fade-out takes one   *)
(* task out of the list, the one with that id, and keeps all others in     *)
(* their order; the end of a later fade-out of an id no task has any more  *)
(* changes the list in nothing.                                            *)
C17_RepeatedDeleteRemovesOnce ==
  [][\A id \in TaskIds :
       /\ (deleteTask(id) /\ FadingOut(id)) => tasks' = tasks
       /\ (RemovalStep(id) /\ FadingOutTwice(id) /\ id \in Ids(tasks)) =>
            /\ Len(tasks') = Len(tasks) - 1
            /\ id \notin Ids(tasks')
            /\ \A i \in DOMAIN tasks :
                 tasks[i].id # id =>
                   \E j \in DOMAIN tasks' : tasks'[j] = tasks[i]
       /\ (RemovalStep(id) /\ id \notin Ids(tasks)) => tasks' = tasks
     ]_vars

(* C18: editingId is null or the id of a task of the list: when the task  *)
(* being edited leaves the list, by the end of its fade-out or by the      *)
(* load replacing the list, editingId does not go on naming it.            *)
C18_EditingIdNamesTask == editingId = Null \/ editingId \in Ids(tasks)

====
